---- MODULE Spec2Model ----
(***************************************************************************)
(* Desk Coach posture-metric engine (src/src/PoseWebcam.tsx).              *)
(*                                                                         *)
(* The component holds five pieces of React state (landmarks, neckFlexion, *)
(* cva, fsa, calibration), one ref (calibrationRef) and one localStorage   *)
(* item.  It is driven by three kinds of event: the pose oracle's          *)
(* onResults callback, a click on "Set Upright Calibration", and a page    *)
(* (re)load.  JavaScript runs each handler to completion; React renders    *)
(* the state a handler set and runs the passive effects of that render     *)
(* ([calibration] -> ref sync, save) before the next event is delivered,   *)
(* so one action is a handler together with its render and effects.        *)
(* No effect catches an exception and no error boundary encloses the       *)
(* component, so an effect that throws ends with the component unmounted:  *)
(* the pose effect's cleanup stops the camera and closes the pose oracle.  *)
(*                                                                         *)
(* Numbers.  Landmark coordinates are points of an integer grid; midpoints *)
(* are kept doubled (x1 + x2 instead of (x1 + x2) / 2), which changes      *)
(* neither a direction nor whether a vector is zero.  Angles are whole     *)
(* degrees: Math.acos / Math.atan2 results rounded to the nearest degree.  *)
(* Visibilities and confidences are in twelfths (VisOne stands for 1.0),   *)
(* so that the code's divisions by 2, 3 and 4 are exact.                   *)
(***************************************************************************)
EXTENDS Integers, Sequences, FiniteSets

VARIABLES
    landmarks,       \* useState: the stored landmark snapshot
    neckFlexion,     \* useState: exposed NeckFlexion metric or None
    cva,             \* useState: exposed CVA metric or None
    fsa,             \* useState: exposed FSA metric or None
    calibration,     \* useState: calibration offset or None
    calibrationRef,  \* useRef: the offset the frame callback reads
    storage,         \* localStorage item 'deskcoach-neck-calibration'
    lastOp,          \* the event handled last: "mount", "pose", "nopose", "click"
    storeFault,      \* how localStorage fails: "none", "read" or "write"
    mounted          \* the component is mounted: its callbacks and button exist

vars == <<landmarks, neckFlexion, cva, fsa, calibration, calibrationRef, storage, lastOp,
          storeFault, mounted>>

\* JavaScript values.  null and undefined are None; a number n that may also be
\* null is carried as Num(n), a string as Str(<<characters>>), so that a value
\* of either kind can be compared with None.
None == [null |-> TRUE]
Num(n) == [num |-> n]
Str(s) == [chars |-> s]
\* the result of parseFloat on a string that starts with no number
NaN == [nan |-> TRUE]

----------------------------------------------------------------------------
\* Bounds and scales

\* landmark coordinates range over the grid 0..MaxCoord in x and in y
MaxCoord == 2

\* visibility 1.0, in twelfths
VisOne == 4 * 3

\* the landmark array the oracle delivers has 33 slots
NumLandmarks == 33

\* the slots a modelled frame carries; every other slot is left out
LeftEyeInnerIdx == 1
LeftEyeIdx == 2
RightEyeIdx == 5
LeftEarIdx == 7
RightEarIdx == 8
LeftShoulderIdx == 11
RightShoulderIdx == 12
LeftHipIdx == 23
RightHipIdx == 24

Slots == {LeftEyeInnerIdx, LeftEyeIdx, RightEyeIdx, LeftEarIdx, RightEarIdx,
          LeftShoulderIdx, RightShoulderIdx, LeftHipIdx, RightHipIdx}

\* the slots whose position the frames vary
HeadAndShoulderSlots == {LeftEyeInnerIdx, LeftEyeIdx, LeftEarIdx, RightEarIdx,
                         LeftShoulderIdx, RightShoulderIdx}

Grid == 0..MaxCoord

\* the visibility field of a landmark: 1.0, 0.0, or not given
Visible == Num(VisOne)
Hidden == Num(0)
NoVis == None

Point(px, py) == [x |-> px, y |-> py]

Landmark(px, py, v) == [x |-> px, y |-> py, visibility |-> v]

----------------------------------------------------------------------------
\* Frames delivered by the pose oracle

\* an upright pose: eyes above ears above shoulders, everything visible
BasePose ==
    [i \in Slots |->
        CASE i = LeftEyeInnerIdx  -> Landmark(0, 0, Visible)
          [] i = LeftEyeIdx       -> Landmark(2, 0, Visible)
          [] i = RightEyeIdx      -> Landmark(2, 0, Visible)
          [] i = LeftEarIdx       -> Landmark(0, 1, Visible)
          [] i = RightEarIdx      -> Landmark(2, 1, Visible)
          [] i = LeftShoulderIdx  -> Landmark(0, 2, Visible)
          [] i = RightShoulderIdx -> Landmark(2, 2, Visible)
          [] i = LeftHipIdx       -> Landmark(0, 2, Visible)
          [] i = RightHipIdx      -> Landmark(2, 2, Visible)]

\* the left/right pairs of the pose
Pairs == {{LeftEyeInnerIdx, LeftEyeIdx}, {LeftEarIdx, RightEarIdx},
          {LeftShoulderIdx, RightShoulderIdx}, {LeftHipIdx, RightHipIdx}}

\* the base pose with the landmarks of S missing
Without(S) == [i \in Slots |-> IF i \in S THEN None ELSE BasePose[i]]

\* one landmark missing, one pair missing, or every landmark missing
MissingFrames == {Without({i}) : i \in Slots} \cup {Without(P) : P \in Pairs}
                 \cup {Without(Slots)}

\* the base pose with one head or shoulder landmark at another grid point
MovedFrames ==
    {[BasePose EXCEPT ![i] = Landmark(px, py, Visible)] :
        i \in HeadAndShoulderSlots, px \in Grid, py \in Grid}

\* the base pose with one landmark's visibility 0 or not given
DimmedFrames ==
    {[BasePose EXCEPT ![i].visibility = v] : i \in Slots, v \in {Hidden, NoVis}}

\* the base pose with every landmark's visibility 0, or none given
UniformFrames ==
    {[i \in Slots |-> [BasePose[i] EXCEPT !.visibility = v]] : v \in {Hidden, NoVis}}

\* left hip missing or dimmed while one shoulder is dimmed
HipFrames ==
    {[BasePose EXCEPT ![LeftHipIdx] = h, ![s].visibility = Hidden] :
        h \in {None, Landmark(0, 2, Hidden), Landmark(0, 2, NoVis)},
        s \in {LeftShoulderIdx, RightShoulderIdx}}

Frames == MissingFrames \cup MovedFrames \cup DimmedFrames \cup UniformFrames
          \cup HipFrames

\* landmarks = [] of useState<any[]>([])
EmptyLandmarks == << >>

\* landmarks.length
LengthOf(lms) == IF DOMAIN lms = {} THEN 0 ELSE NumLandmarks

\* lms[i]: undefined outside the array and in an empty slot
At(lms, i) == IF i \in DOMAIN lms THEN lms[i] ELSE None

\* lm.visibility ?? 0
Vis(lm) == IF lm.visibility = NoVis THEN 0 ELSE lm.visibility.num

----------------------------------------------------------------------------
\* Angles

\* scale of the tangent table
TanScale == 10000

\* tan((j - 1/2) degrees) * TanScale, j = 1..90
TanHalfDeg ==
    <<87, 262, 437, 612, 787, 963, 1139, 1317, 1495, 1673,
      1853, 2035, 2217, 2401, 2586, 2773, 2962, 3153, 3346, 3541,
      3739, 3939, 4142, 4348, 4557, 4770, 4986, 5206, 5430, 5658,
      5890, 6128, 6371, 6619, 6873, 7133, 7400, 7673, 7954, 8243,
      8541, 8847, 9163, 9490, 9827, 10176, 10538, 10913, 11303, 11708,
      12131, 12572, 13032, 13514, 14019, 14550, 15108, 15697, 16319, 16977,
      17675, 18418, 19210, 20057, 20965, 21943, 22998, 24142, 25386, 26746,
      28239, 29887, 31716, 33759, 36059, 38667, 41653, 45107, 49152, 53955,
      59758, 66912, 75958, 87769, 103854, 127062, 163499, 229038, 381885, 1145887>>

Abs(n) == IF n < 0 THEN -n ELSE n

\* atan(opp / adj) in degrees, rounded to the nearest degree (opp >= 0, adj > 0)
AtanDeg(opp, adj) ==
    Cardinality({j \in 1..90 : TanHalfDeg[j] * adj <= opp * TanScale})

\* variant of UnsignedAngleDeg: Math.abs is missing and the angle keeps the sign
\* of the component across the axis, as atan2 gives it
SignedAngleDeg(adj, opp) ==
    LET unsigned == IF adj > 0 THEN AtanDeg(Abs(opp), adj)
                    ELSE IF adj = 0 THEN 90
                    ELSE 180 - AtanDeg(Abs(opp), -adj)
    IN  IF opp < 0 THEN -unsigned ELSE unsigned

\* the unsigned angle, in degrees 0..180, between a non-zero vector and an axis:
\* adj is the vector's component along the axis, opp the one across it.
\* It is |acos(adj / mag) * 180 / PI| and |atan2(opp, adj) * 180 / PI|.
UnsignedAngleDeg(adj, opp) ==
    IF adj > 0 THEN AtanDeg(Abs(opp), adj)
    ELSE IF adj = 0 THEN 90
    ELSE 180 - AtanDeg(Abs(opp), -adj)

\* function angleToVertical(a, b)
AngleToVertical(a, b) ==
    IF a = None \/ b = None THEN None
    ELSE LET dx == b.x - a.x
             dy == b.y - a.y
         IN  IF dx = 0 /\ dy = 0 THEN None
             ELSE Num(UnsignedAngleDeg(-dy, dx))

\* the midpoint of two landmarks, doubled
Mid2(p, q) == Point(p.x + q.x, p.y + q.y)

\* a landmark's position, doubled
Twice(p) == Point(2 * p.x, 2 * p.y)

----------------------------------------------------------------------------
\* The calibration store

DigitChars == <<"0", "1", "2", "3", "4", "5", "6", "7", "8", "9">>

IsDigit(ch) == \E d \in 1..10 : DigitChars[d] = ch

DigitValue(ch) == (CHOOSE d \in 1..10 : DigitChars[d] = ch) - 1

RECURSIVE NatToString(_)
NatToString(n) ==
    IF n < 10 THEN <<DigitChars[n + 1]>>
    ELSE NatToString(n \div 10) \o <<DigitChars[(n % 10) + 1]>>

\* calibration.toString(), as a sequence of characters
ToString(n) == IF n < 0 THEN <<"-">> \o NatToString(-n) ELSE NatToString(n)

RECURSIVE SkipSpaces(_)
SkipSpaces(s) ==
    IF s # << >> /\ Head(s) = " " THEN SkipSpaces(Tail(s)) ELSE s

RECURSIVE DigitPrefix(_)
DigitPrefix(s) ==
    IF s # << >> /\ IsDigit(Head(s)) THEN <<Head(s)>> \o DigitPrefix(Tail(s))
    ELSE << >>

RECURSIVE DigitsToNat(_, _)
DigitsToNat(ds, acc) ==
    IF ds = << >> THEN acc
    ELSE DigitsToNat(Tail(ds), (10 * acc) + DigitValue(Head(ds)))

\* parseFloat(saved): leading blanks are skipped, then the longest prefix that
\* is a number is read and the rest ignored; NaN when there is no such prefix.
\* (Strings with a fraction or an exponent are not among the modelled ones.)
ParseFloat(s) ==
    LET t == SkipSpaces(s)
        neg == t # << >> /\ Head(t) = "-"
        u == IF neg THEN Tail(t) ELSE t
        ds == DigitPrefix(u)
    IN  IF ds = << >> THEN NaN
        ELSE IF neg THEN Num(-DigitsToNat(ds, 0)) ELSE Num(DigitsToNat(ds, 0))

\* the mount effect that loads the calibration: the value handed to
\* setCalibration, None when setCalibration is not called
LoadCalibration(saved) ==
    IF saved # None
    THEN LET val == ParseFloat(saved.chars) IN IF val # NaN THEN val ELSE None
    ELSE None

\* variant of SaveCalibration: the guard is if (calibration), which is false
\* for an offset of 0
SaveCalibrationTruthy(cal, store) ==
    IF cal # None /\ cal.num # 0 THEN Str(ToString(cal.num)) ELSE store

\* the effect that saves the calibration: the store after it has run
SaveCalibration(cal, store) == IF cal # None THEN Str(ToString(cal.num)) ELSE store

\* variant of SyncRef: the ref is never written and keeps its initial null
SyncRefNever(cal) == None

\* the effect that keeps calibrationRef in sync: the ref after it has run
SyncRef(cal) == cal

\* the ways localStorage may fail: not at all, getItem throws, setItem throws
StoreFaults == {"none", "read", "write"}

\* localStorage.getItem throws
GetItemThrows == storeFault = "read"

\* the save effect calls localStorage.setItem, which throws
SetItemThrows(cal) == cal # None /\ storeFault = "write"

\* what the store may hold when the page is first loaded
InitialStores ==
    {None, Str(<<"4", "5">>), Str(<<" ", "4", "5", "x">>), Str(<<"a", "b", "c">>)}

----------------------------------------------------------------------------
\* The frame callback, pose.onResults

\* neck: the midpoint of the shoulders
Neck(lms) ==
    LET leftShoulderPt == At(lms, LeftShoulderIdx)
        rightShoulderPt == At(lms, RightShoulderIdx)
    IN  IF leftShoulderPt # None /\ rightShoulderPt # None
        THEN Mid2(leftShoulderPt, rightShoulderPt) ELSE None

\* the landmarks the code binds to leftEar, rightEar, leftEye, rightEye
LeftEar(lms) == At(lms, LeftEarIdx)
RightEar(lms) == At(lms, RightEarIdx)
LeftEye(lms) == At(lms, LeftEyeInnerIdx)
RightEye(lms) == At(lms, LeftEyeIdx)

MidEar(lms) ==
    IF LeftEar(lms) # None /\ RightEar(lms) # None
    THEN Mid2(LeftEar(lms), RightEar(lms)) ELSE None

\* variant of MidEye: only the first eye landmark is required and used
MidEyeLeftOnly(lms) ==
    IF LeftEye(lms) # None THEN Twice(LeftEye(lms)) ELSE None

MidEye(lms) ==
    IF LeftEye(lms) # None /\ RightEye(lms) # None
    THEN Mid2(LeftEye(lms), RightEye(lms)) ELSE None

\* flexionAngle: the raw NeckFlexion angle
FlexionAngle(lms) ==
    IF MidEar(lms) # None /\ MidEye(lms) # None
    THEN AngleToVertical(MidEar(lms), MidEye(lms)) ELSE None

\* variant of FlexionConf: the eyes' visibilities are left out
FlexionConfEarsOnly(lms) ==
    IF LeftEar(lms) # None /\ RightEar(lms) # None
    THEN ((Vis(LeftEar(lms)) \div 2) + (Vis(RightEar(lms)) \div 2)) \div 2
    ELSE 0

\* flexionConf
FlexionConf(lms) ==
    LET earPart == IF LeftEar(lms) # None /\ RightEar(lms) # None
                   THEN (Vis(LeftEar(lms)) \div 2) + (Vis(RightEar(lms)) \div 2)
                   ELSE 0
        eyePart == IF LeftEye(lms) # None /\ RightEye(lms) # None
                   THEN (Vis(LeftEye(lms)) \div 2) + (Vis(RightEye(lms)) \div 2)
                   ELSE 0
    IN  (earPart + eyePart) \div 2

\* variant of CurrentCalibration: the callback reads the calibration state it
\* closed over when the pose effect ran, which is the initial null
ClosureCalibration == None

\* const currentCalibration = calibrationRef.current
CurrentCalibration == calibrationRef

\* calibratedAngle
CalibratedAngle(flexionAngle, currentCalibration) ==
    IF flexionAngle # None /\ currentCalibration # None
    THEN Num(flexionAngle.num - currentCalibration.num) ELSE flexionAngle

\* status, for a calibratedAngle that is not null
NeckStatus(calibratedAngle) ==
    IF calibratedAngle <= 15 THEN "Good"
    ELSE IF calibratedAngle <= 20 THEN "Warn"
    ELSE "Alert"

\* the value handed to setNeckFlexion
NeckFlexionMetric(flexionAngle, currentCalibration, flexionConf) ==
    LET calibratedAngle == CalibratedAngle(flexionAngle, currentCalibration)
    IN  IF calibratedAngle # None
        THEN [angle |-> calibratedAngle.num,
              status |-> NeckStatus(calibratedAngle.num),
              confidence |-> flexionConf]
        ELSE None

\* cvaAngle
CvaAngle(lms) ==
    LET neck == Neck(lms)
        midEar == MidEar(lms)
    IN  IF neck # None /\ midEar # None
        THEN LET dx == midEar.x - neck.x
                 dy == midEar.y - neck.y
             IN  IF ~(dx = 0 /\ dy = 0) THEN Num(UnsignedAngleDeg(dx, -dy)) ELSE None
        ELSE None

\* the visibilities of the present ones among the landmarks at idxs
PresentVis(lms, idxs) ==
    [k \in {j \in 1..Len(idxs) : At(lms, idxs[j]) # None} |-> Vis(At(lms, idxs[k]))]

RECURSIVE SumOver(_, _)
SumOver(f, S) ==
    IF S = {} THEN 0
    ELSE LET k == CHOOSE k \in S : TRUE IN f[k] + SumOver(f, S \ {k})

\* count > 0 ? sum / count : 0 over the present ones among the landmarks at idxs
MeanVis(lms, idxs) ==
    LET pv == PresentVis(lms, idxs)
        count == Cardinality(DOMAIN pv)
        sum == SumOver(pv, DOMAIN pv)
    IN  IF count > 0 THEN sum \div count ELSE 0

\* cvaConf
CvaConf(lms) ==
    IF Neck(lms) # None /\ MidEar(lms) # None
    THEN MeanVis(lms, <<LeftEarIdx, RightEarIdx, LeftShoulderIdx, RightShoulderIdx>>)
    ELSE 0

\* variant of CvaStatus: the boundaries are exclusive
CvaStatusExclusive(cvaAngle) ==
    IF cvaAngle > 48 THEN "Good"
    ELSE IF cvaAngle > 44 THEN "Warn"
    ELSE "Alert"

\* cvaStatus, for a cvaAngle that is not null
CvaStatus(cvaAngle) ==
    IF cvaAngle >= 48 THEN "Good"
    ELSE IF cvaAngle >= 44 THEN "Warn"
    ELSE "Alert"

\* the value handed to setCVA
CvaMetric(cvaAngle, cvaConf) ==
    IF cvaAngle # None
    THEN [angle |-> cvaAngle.num, status |-> CvaStatus(cvaAngle.num),
          confidence |-> cvaConf]
    ELSE None

\* fsaAngle
FsaAngle(lms) ==
    LET neck == Neck(lms)
        leftShoulderPt == At(lms, LeftShoulderIdx)
    IN  IF neck # None /\ leftShoulderPt # None
        THEN LET dx == Twice(leftShoulderPt).x - neck.x
                 dy == Twice(leftShoulderPt).y - neck.y
             IN  IF ~(dx = 0 /\ dy = 0) THEN Num(UnsignedAngleDeg(-dy, dx)) ELSE None
        ELSE None

\* variant of FsaConfSlots: the right hip is read where the left one is meant
FsaConfSlotsRightHip == <<LeftShoulderIdx, RightShoulderIdx, RightHipIdx>>

\* the landmarks whose visibility enters fsaConf
FsaConfSlots == <<LeftShoulderIdx, RightShoulderIdx, LeftHipIdx>>

\* fsaConf
FsaConf(lms) ==
    IF Neck(lms) # None /\ At(lms, LeftShoulderIdx) # None
    THEN MeanVis(lms, FsaConfSlots)
    ELSE 0

\* fsaStatus, for an fsaAngle that is not null
FsaStatus(fsaAngle) ==
    IF fsaAngle <= 15 THEN "Good"
    ELSE IF fsaAngle <= 20 THEN "Warn"
    ELSE "Alert"

\* the value handed to setFSA
FsaMetric(fsaAngle, fsaConf) ==
    IF fsaAngle # None
    THEN [angle |-> fsaAngle.num, status |-> FsaStatus(fsaAngle.num),
          confidence |-> fsaConf]
    ELSE None

\* pose.onResults with results.poseLandmarks = f
OnResults(f) ==
    /\ mounted
    /\ landmarks' = f
    /\ neckFlexion' = NeckFlexionMetric(FlexionAngle(f), CurrentCalibration, FlexionConf(f))
    /\ cva' = CvaMetric(CvaAngle(f), CvaConf(f))
    /\ fsa' = FsaMetric(FsaAngle(f), FsaConf(f))
    /\ lastOp' = "pose"
    /\ UNCHANGED <<calibration, calibrationRef, storage, storeFault, mounted>>

\* pose.onResults with no results.poseLandmarks (the oracle found no pose)
OnResultsNoPose ==
    /\ mounted
    /\ lastOp' = "nopose"
    /\ UNCHANGED <<landmarks, neckFlexion, cva, fsa, calibration, calibrationRef, storage,
                   storeFault, mounted>>

----------------------------------------------------------------------------
\* The "Set Upright Calibration" button

\* variant of ClickCalibration: the exposed, calibrated angle is stored
ClickCalibratedAngle ==
    IF neckFlexion # None /\ LengthOf(landmarks) > 0
    THEN Num(neckFlexion.angle)
    ELSE None

\* variant of ClickCalibration: a click that finds no angle stores 0
ClickCalibrationOrZero ==
    IF neckFlexion # None /\ LengthOf(landmarks) > 0
    THEN FlexionAngle(landmarks)
    ELSE Num(0)

\* the value the click hands to setCalibration, None when it calls nothing
\* (the angle of a metric is a number, so neckFlexion.angle !== null holds)
ClickCalibration ==
    IF neckFlexion # None /\ LengthOf(landmarks) > 0
    THEN FlexionAngle(landmarks)
    ELSE None

\* variant of SetCalibration: the click also re-reads the exposed NeckFlexion
\* under the offset it has just stored
SetCalibrationRefreshing ==
    LET flexionAngle == ClickCalibration
        newCalibration == IF flexionAngle # None THEN flexionAngle ELSE calibration
    IN  /\ mounted
        /\ calibration' = newCalibration
        /\ calibrationRef' = SyncRef(newCalibration)
        /\ storage' = SaveCalibration(newCalibration, storage)
        /\ neckFlexion' =
              IF neckFlexion # None
              THEN NeckFlexionMetric(FlexionAngle(landmarks), newCalibration,
                                     neckFlexion.confidence)
              ELSE None
        /\ lastOp' = "click"
        /\ UNCHANGED <<landmarks, cva, fsa, storeFault, mounted>>

\* onClick, the render it causes and that render's effects; the effects run
\* when the calibration changed, and a save effect that throws unmounts the
\* component
SetCalibration ==
    LET flexionAngle == ClickCalibration
        newCalibration == IF flexionAngle # None THEN flexionAngle ELSE calibration
    IN  /\ mounted
        /\ IF newCalibration # calibration /\ SetItemThrows(newCalibration)
           THEN /\ landmarks' = EmptyLandmarks
                /\ neckFlexion' = None
                /\ cva' = None
                /\ fsa' = None
                /\ calibration' = None
                /\ calibrationRef' = None
                /\ storage' = storage
                /\ mounted' = FALSE
           ELSE /\ calibration' = newCalibration
                /\ calibrationRef' = SyncRef(newCalibration)
                /\ storage' = SaveCalibration(newCalibration, storage)
                /\ UNCHANGED <<landmarks, neckFlexion, cva, fsa, mounted>>
        /\ lastOp' = "click"
        /\ UNCHANGED storeFault

----------------------------------------------------------------------------
\* Page load

\* the mount effects over a store holding saved (ref sync, load, save, pose
\* setup) and, when the load set a calibration, the render that follows with
\* its effects: whether the component stays mounted, and the calibration, the
\* ref and the store afterwards
MountOutcome(saved) ==
    IF GetItemThrows \/ SetItemThrows(LoadCalibration(saved))
    THEN [alive |-> FALSE, cal |-> None, ref |-> None, store |-> saved]
    ELSE LET loaded == LoadCalibration(saved)
         IN  [alive |-> TRUE, cal |-> loaded, ref |-> SyncRef(loaded),
              store |-> SaveCalibration(loaded, saved)]

\* the component once the page is loaded over a store holding saved
Mounted(saved) ==
    LET out == MountOutcome(saved)
    IN  /\ landmarks = EmptyLandmarks
        /\ neckFlexion = None
        /\ cva = None
        /\ fsa = None
        /\ calibration = out.cal
        /\ calibrationRef = out.ref
        /\ storage = out.store
        /\ lastOp = "mount"
        /\ mounted = out.alive

\* the page is loaded while the store works
Init == storeFault = "none" /\ \E saved \in InitialStores : Mounted(saved)

\* the page is loaded again: the component state is lost, the store is kept
Restart ==
    LET out == MountOutcome(storage)
    IN  /\ landmarks' = EmptyLandmarks
        /\ neckFlexion' = None
        /\ cva' = None
        /\ fsa' = None
        /\ calibration' = out.cal
        /\ calibrationRef' = out.ref
        /\ storage' = out.store
        /\ lastOp' = "mount"
        /\ mounted' = out.alive
        /\ UNCHANGED storeFault

Next ==
    \/ \E f \in Frames : OnResults(f)
    \/ OnResultsNoPose
    \/ SetCalibration
    \/ Restart

Spec == Init /\ [][Next]_vars

\* the page is loaded over a store that works or fails in one of the ways
FaultInit ==
    \E fault \in StoreFaults, saved \in InitialStores :
        storeFault = fault /\ Mounted(saved)

FaultSpec == FaultInit /\ [][Next]_vars

----------------------------------------------------------------------------
\* Classification on its own: the three status computations of the callback
\* applied to every whole-degree angle, once, from a freshly mounted component

\* angles are at most 180 degrees
MaxAngleDeg == 180

\* the offsets under which the NeckFlexion angle is classified
ProbeOffsets == {None, Num(0), Num(45), Num(MaxAngleDeg)}

\* the callback's classification of a frame whose raw NeckFlexion and FSA
\* angles are a and whose CVA angle is b, with offset c in the ref
Classify(a, b, c) ==
    /\ neckFlexion' = NeckFlexionMetric(Num(a), c, VisOne)
    /\ cva' = CvaMetric(Num(b), VisOne)
    /\ fsa' = FsaMetric(Num(a), VisOne)
    /\ calibrationRef' = c
    /\ lastOp' = "pose"
    /\ UNCHANGED <<landmarks, calibration, storage, storeFault, mounted>>

StatusInit == storeFault = "none" /\ Mounted(None)

\* each triple is classified once, from the mounted state
StatusNext ==
    /\ lastOp = "mount"
    /\ \E a \in 0..MaxAngleDeg, b \in 0..MaxAngleDeg, c \in ProbeOffsets : Classify(a, b, c)

StatusSpec == StatusInit /\ [][StatusNext]_vars

----------------------------------------------------------------------------
\* Properties

\* the landmark of the stored snapshot at slot i is present
Has(i) == At(landmarks, i) # None

\* the offset in force, as a number (0 when none is set)
OffsetInForce == IF calibration = None THEN 0 ELSE calibration.num

\* C1: after a frame has been processed, a metric is in the snapshot only if
\* that frame supplied every landmark the metric depends on; after a frame
\* without landmarks every metric is absent, not left over from before.
C1_NoStaleMetric ==
    /\ lastOp = "nopose" => neckFlexion = None /\ cva = None /\ fsa = None
    /\ lastOp = "pose" =>
        /\ neckFlexion # None =>
             Has(LeftEarIdx) /\ Has(RightEarIdx) /\ Has(LeftEyeInnerIdx) /\ Has(LeftEyeIdx)
        /\ cva # None =>
             Has(LeftEarIdx) /\ Has(RightEarIdx) /\ Has(LeftShoulderIdx) /\ Has(RightShoulderIdx)
        /\ fsa # None => Has(LeftShoulderIdx) /\ Has(RightShoulderIdx)

\* C2: a frame processed while offset c is set yields NeckFlexion angle
\* raw - c (raw when no offset is set), whatever was handled before it.
C2_OffsetApplied ==
    lastOp = "pose" /\ FlexionAngle(landmarks) # None =>
        /\ neckFlexion # None
        /\ neckFlexion.angle = FlexionAngle(landmarks).num - OffsetInForce

\* C2 witness: a frame processed under an offset c > 0 set by a click, reading
\* raw - c > 0 with status Good
C2_Witness ==
    /\ lastOp = "pose" /\ neckFlexion # None /\ calibration # None
    /\ calibration.num > 0 /\ calibration.num # 45
    /\ neckFlexion.angle = FlexionAngle(landmarks).num - calibration.num
    /\ neckFlexion.angle > 0 /\ neckFlexion.status = "Good"

\* C3: a click that finds a NeckFlexion metric stores the raw angle of the
\* stored snapshot, whatever offset is in force and whatever calibrated angle
\* is exposed; a click that follows a click changes no offset.
C3_StoresRawAngle ==
    [][lastOp' = "click" =>
        /\ (neckFlexion # None => calibration' = FlexionAngle(landmarks))
        /\ (lastOp = "click" => calibration' = calibration)]_vars

\* C3 witness: a click has stored the raw angle while the exposed angle, read
\* under an earlier offset, differs from it
C3_Witness ==
    /\ lastOp = "click" /\ neckFlexion # None
    /\ calibration = FlexionAngle(landmarks)
    /\ neckFlexion.angle # calibration.num

\* C4: a click on a frame with a NeckFlexion metric, followed by the same
\* frame, reads a calibrated angle of 0 and status Good.
C4_SameFrameReadsZero ==
    [][(lastOp = "click" /\ neckFlexion # None /\ lastOp' = "pose"
            /\ landmarks' = landmarks) =>
        /\ neckFlexion' # None
        /\ neckFlexion'.angle = 0
        /\ neckFlexion'.status = "Good"]_vars

\* C4 witness: a frame with raw angle r > 0 read as 0 under the offset r
C4_Witness ==
    /\ lastOp = "pose" /\ neckFlexion # None /\ neckFlexion.angle = 0
    /\ calibration # None /\ calibration.num > 0
    /\ calibration = FlexionAngle(landmarks)

\* the landmarks at slots i and j have the same sum of positions as those at
\* k and l: the two midpoints coincide
SameMidpoint(i, j, k, l) ==
    /\ landmarks[i].x + landmarks[j].x = landmarks[k].x + landmarks[l].x
    /\ landmarks[i].y + landmarks[j].y = landmarks[k].y + landmarks[l].y

Statuses == {"Good", "Warn", "Alert"}

\* C6: the status of a present metric is decided by its angle alone:
\* NeckFlexion and FSA are Good up to 15, Warn above 15 up to 20, Alert above
\* 20; CVA is Good from 48, Warn from 44 to below 48, Alert below 44.
C6_StatusByAngle ==
    /\ neckFlexion # None =>
        /\ neckFlexion.status \in Statuses
        /\ neckFlexion.status = "Good" <=> neckFlexion.angle <= 15
        /\ neckFlexion.status = "Warn" <=> 15 < neckFlexion.angle /\ neckFlexion.angle <= 20
        /\ neckFlexion.status = "Alert" <=> neckFlexion.angle > 20
    /\ fsa # None =>
        /\ fsa.status \in Statuses
        /\ fsa.status = "Good" <=> fsa.angle <= 15
        /\ fsa.status = "Warn" <=> 15 < fsa.angle /\ fsa.angle <= 20
        /\ fsa.status = "Alert" <=> fsa.angle > 20
    /\ cva # None =>
        /\ cva.status \in Statuses
        /\ cva.status = "Good" <=> cva.angle >= 48
        /\ cva.status = "Warn" <=> 44 <= cva.angle /\ cva.angle < 48
        /\ cva.status = "Alert" <=> cva.angle < 44

\* C6 witness: the boundaries themselves: a calibrated NeckFlexion angle of
\* exactly 15 is Good, an FSA angle of exactly 60 is Alert, a CVA angle of
\* exactly 44 is Warn
C6_Witness ==
    /\ neckFlexion # None /\ neckFlexion.angle = 15 /\ neckFlexion.status = "Good"
    /\ calibrationRef = Num(45)
    /\ fsa # None /\ fsa.angle = 60 /\ fsa.status = "Alert"
    /\ cva # None /\ cva.angle = 44 /\ cva.status = "Warn"

\* C7 as claimed: the angle of every present metric lies in [0, 180].
C7_AllAnglesInRange ==
    /\ neckFlexion # None => neckFlexion.angle \in 0..180
    /\ cva # None => cva.angle \in 0..180
    /\ fsa # None => fsa.angle \in 0..180

\* C7 amended: the CVA and FSA angles and the raw NeckFlexion angle of the
\* stored snapshot lie in [0, 180]; the exposed NeckFlexion angle of a frame
\* just processed is the raw angle less the offset in force, so it lies in
\* [-offset, 180 - offset].
C7_RawAnglesInRange ==
    /\ cva # None => cva.angle \in 0..180
    /\ fsa # None => fsa.angle \in 0..180
    /\ neckFlexion # None => FlexionAngle(landmarks).num \in 0..180
    /\ lastOp = "pose" /\ neckFlexion # None =>
        neckFlexion.angle + OffsetInForce \in 0..180

\* C7 witness: an exposed NeckFlexion angle below 0, raw angle less than offset
C7_Witness ==
    /\ lastOp = "pose" /\ neckFlexion # None /\ neckFlexion.angle < 0
    /\ calibration # None /\ FlexionAngle(landmarks).num < calibration.num
    /\ fsa # None /\ cva # None

\* the visibility of the landmark of the stored snapshot at slot i
VisAt(i) == Vis(landmarks[i])

\* C8 as claimed: the confidence of a present metric is the mean visibility of
\* exactly the landmarks its angle is computed from: ears and eyes for
\* NeckFlexion, ears and shoulders for CVA, the two shoulders for FSA.
C8_ConfidenceOfAngleLandmarks ==
    /\ neckFlexion # None =>
        4 * neckFlexion.confidence =
            VisAt(LeftEarIdx) + VisAt(RightEarIdx) + VisAt(LeftEyeInnerIdx) + VisAt(LeftEyeIdx)
    /\ cva # None =>
        4 * cva.confidence =
            VisAt(LeftEarIdx) + VisAt(RightEarIdx) + VisAt(LeftShoulderIdx) + VisAt(RightShoulderIdx)
    /\ fsa # None =>
        2 * fsa.confidence = VisAt(LeftShoulderIdx) + VisAt(RightShoulderIdx)

\* C8 amended: as claimed for NeckFlexion and CVA; the FSA confidence is the
\* mean visibility of the two shoulders and, when the frame has it, the left
\* hip, a landmark the FSA angle is not computed from.
C8_ConfidenceMeans ==
    /\ neckFlexion # None =>
        4 * neckFlexion.confidence =
            VisAt(LeftEarIdx) + VisAt(RightEarIdx) + VisAt(LeftEyeInnerIdx) + VisAt(LeftEyeIdx)
    /\ cva # None =>
        4 * cva.confidence =
            VisAt(LeftEarIdx) + VisAt(RightEarIdx) + VisAt(LeftShoulderIdx) + VisAt(RightShoulderIdx)
    /\ fsa # None /\ ~Has(LeftHipIdx) =>
        2 * fsa.confidence = VisAt(LeftShoulderIdx) + VisAt(RightShoulderIdx)
    /\ fsa # None /\ Has(LeftHipIdx) =>
        3 * fsa.confidence =
            VisAt(LeftShoulderIdx) + VisAt(RightShoulderIdx) + VisAt(LeftHipIdx)

\* C8 witness: both shoulders fully visible, the left hip present with
\* visibility 0: the FSA confidence is 2/3, NeckFlexion and CVA confidence 1
C8_Witness ==
    /\ fsa # None /\ Has(LeftHipIdx)
    /\ VisAt(LeftShoulderIdx) = VisOne /\ VisAt(RightShoulderIdx) = VisOne
    /\ VisAt(LeftHipIdx) = 0
    /\ 3 * fsa.confidence = 2 * VisOne
    /\ neckFlexion # None /\ neckFlexion.confidence = VisOne
    /\ cva # None /\ cva.confidence = VisOne

\* C9: the confidence of a present FSA metric is the sum of the visibilities
\* of the present ones among left shoulder, right shoulder and left hip over
\* their number, a landmark without visibility counting 0; no other landmark
\* enters.
C9_FsaConfidence ==
    fsa # None =>
        LET present == {i \in {LeftShoulderIdx, RightShoulderIdx, LeftHipIdx} : Has(i)}
            given == {i \in present : landmarks[i].visibility # None}
            ones == {i \in given : landmarks[i].visibility = Num(VisOne)}
        IN  /\ \A i \in given : landmarks[i].visibility \in {Num(0), Num(VisOne)}
            /\ Cardinality(present) * fsa.confidence = Cardinality(ones) * VisOne

\* C9 witness: the left hip is missing and one shoulder has visibility 0, so
\* the confidence is 1/2, while the right hip is present and fully visible
C9_Witness ==
    /\ fsa # None /\ ~Has(LeftHipIdx) /\ Has(RightHipIdx)
    /\ VisAt(RightHipIdx) = VisOne
    /\ VisAt(LeftShoulderIdx) + VisAt(RightShoulderIdx) = VisOne
    /\ 2 * fsa.confidence = VisOne

\* C10: what the store holds parses to the offset in memory whenever one is
\* set; a page load takes the offset from the store, so a reload ends with the
\* offset that was in memory before it, in the state and in the ref the frames
\* read; a load that finds nothing to set leaves the store as it was, and a
\* frame processed right after a load has the loaded offset subtracted.
C10_PersistenceRoundTrip ==
    /\ [](calibration # None =>
            /\ storage # None
            /\ ParseFloat(storage.chars) = calibration)
    /\ [](lastOp = "mount" /\ storage = None => calibration = None)
    /\ [][lastOp' = "mount" =>
            /\ calibration' = calibration
            /\ calibrationRef' = calibration
            /\ (calibration' = None => storage' = storage)]_vars
    /\ [][lastOp' = "click" /\ calibration' # calibration =>
            storage' = Str(ToString(calibration'.num))]_vars
    /\ [][(lastOp = "mount" /\ lastOp' = "pose" /\ calibration # None
                /\ neckFlexion' # None) =>
            neckFlexion'.angle = FlexionAngle(landmarks').num - calibration.num]_vars

\* C10 witness: a page load has restored an offset that a click had saved
C10_Witness ==
    /\ lastOp = "mount" /\ calibration # None /\ calibration.num \notin {0, 45}
    /\ calibrationRef = calibration
    /\ storage = Str(ToString(calibration.num))

\* C11: a store that cannot be read at startup or written at a calibration
\* leaves the engine running, and the frames processed under such a store have
\* no calibration applied: the NeckFlexion angle is the raw angle.
C11_StoreFailureDegrades ==
    /\ mounted
    /\ (storeFault # "none" /\ lastOp = "pose" /\ FlexionAngle(landmarks) # None) =>
        /\ neckFlexion # None
        /\ neckFlexion.angle = FlexionAngle(landmarks).num

\* C11, reading failure: the page is loaded over a store whose getItem throws
C11_ReadFailureKeepsRunning == storeFault = "read" => mounted

\* C11, writing failure: a click sets an offset over a store whose setItem throws
C11_WriteFailureKeepsRunning == storeFault = "write" /\ lastOp = "click" => mounted

\* C11, the part that holds: a stored value that is not a number loads no
\* offset, and the frames that follow are processed with the raw angle
C11_NotANumberDegrades ==
    [][(lastOp = "mount" /\ storage # None /\ ParseFloat(storage.chars) = NaN
            /\ lastOp' = "pose"
            /\ FlexionAngle(landmarks') # None) =>
        /\ mounted /\ calibration = None
        /\ neckFlexion' # None
        /\ neckFlexion'.angle = FlexionAngle(landmarks').num]_vars

\* the midpoint (doubled) of the landmarks that the landmark name table calls
\* left_eye and right_eye, in the stored snapshot
NamedMidEye ==
    IF Has(LeftEyeIdx) /\ Has(RightEyeIdx)
    THEN Mid2(landmarks[LeftEyeIdx], landmarks[RightEyeIdx]) ELSE None

\* C12: the NeckFlexion of a processed frame is computed from the midpoint of
\* the landmarks named left_eye and right_eye: it is absent when the right_eye
\* landmark is absent, and when present its raw angle is the angle of
\* midEar -> that midpoint to the vertical.
C12_MidEyeOfNamedEyes ==
    lastOp = "pose" =>
        /\ ~Has(RightEyeIdx) => neckFlexion = None
        /\ neckFlexion # None =>
            /\ NamedMidEye # None
            /\ AngleToVertical(MidEar(landmarks), NamedMidEye) # None
            /\ neckFlexion.angle + OffsetInForce =
                   AngleToVertical(MidEar(landmarks), NamedMidEye).num

\* C12, the right_eye landmark alone: no NeckFlexion without it
C12_AbsentWithoutRightEye ==
    lastOp = "pose" /\ ~Has(RightEyeIdx) => neckFlexion = None

\* C12, the part that holds: a click recomputes the raw angle from the same
\* pair of landmarks as the frame callback read it from
C12_ClickUsesSamePair ==
    [][(lastOp = "pose" /\ lastOp' = "click" /\ neckFlexion # None) =>
        calibration'.num = neckFlexion.angle + OffsetInForce]_vars

\* C13: a click made while no NeckFlexion metric is exposed changes neither
\* the offset, nor the ref, nor the store; and no click clears an offset that
\* is set or stores anything but a number.
C13_ClickWithoutMetricIsNoOp ==
    [][lastOp' = "click" =>
        /\ (neckFlexion = None =>
                /\ calibration' = calibration
                /\ calibrationRef' = calibrationRef
                /\ storage' = storage)
        /\ (calibration # None => calibration' # None)
        /\ (calibration' # None =>
                /\ calibration' # NaN
                /\ calibration'.num \in 0..MaxAngleDeg)]_vars

\* C13 witness: a click on a snapshot without NeckFlexion has left in place an
\* offset that an earlier click had set and saved
C13_Witness ==
    /\ lastOp = "click" /\ neckFlexion = None /\ LengthOf(landmarks) > 0
    /\ calibration # None /\ calibration.num \notin {0, 45}
    /\ calibrationRef = calibration
    /\ storage = Str(ToString(calibration.num))

\* C14: a click leaves the stored landmarks and the three exposed metrics as
\* they were; the exposed NeckFlexion changes only when a frame with landmarks
\* is processed or the page is loaded; and CVA and FSA are those of the stored
\* snapshot whatever the offset.
C14_ClickChangesOffsetOnly ==
    /\ [][lastOp' = "click" =>
            /\ landmarks' = landmarks
            /\ neckFlexion' = neckFlexion
            /\ cva' = cva
            /\ fsa' = fsa]_vars
    /\ [][neckFlexion' # neckFlexion => lastOp' \in {"pose", "mount"}]_vars
    /\ [](LengthOf(landmarks) > 0 =>
            /\ cva = CvaMetric(CvaAngle(landmarks), CvaConf(landmarks))
            /\ fsa = FsaMetric(FsaAngle(landmarks), FsaConf(landmarks)))

\* C14 witness: a click has stored the raw angle r > 0 of the snapshot as the
\* offset while the exposed NeckFlexion still reads r, not 0, beside CVA and FSA
C14_Witness ==
    /\ lastOp = "click" /\ neckFlexion # None /\ cva # None /\ fsa # None
    /\ calibration = FlexionAngle(landmarks)
    /\ neckFlexion.angle = calibration.num /\ neckFlexion.angle > 0

====
